---- MODULE Spec2Model ----
(***************************************************************************)
(* Juglans Python worker (src/workers/python_worker.py): the request       *)
(* dispatch loop and the object-handle store.                              *)
(*                                                                         *)
(* The worker reads one line at a time from stdin, decodes it, hands the   *)
(* decoded request to one of four handlers and prints one response.  Its   *)
(* state is the two module globals _object_refs and _ref_counter, the      *)
(* interpreter's module registry sys.modules, and the position of main().  *)
(*                                                                         *)
(* Values.  Every value that travels through the worker (a decoded JSON    *)
(* value, a Python result, a stored object) is a record [t, v]: t is the   *)
(* Python type of the value and v its content.                             *)
(*                                                                         *)
(* Environment.  What the interpreter holds besides the worker (which      *)
(* modules import, which files exist, what an attribute is, what a call    *)
(* returns) is a small fixed world, tabulated in the "world" section.  The *)
(* called code is taken not to reach into the worker's own globals.        *)
(***************************************************************************)
EXTENDS Integers, Sequences, FiniteSets, TLC

VARIABLES
    object_refs,   \* _object_refs: handle-id -> retained object
    ref_counter,   \* _ref_counter
    sys_modules,   \* sys.modules restricted to the names of the world
    pc,            \* "running" | "crashed" (uncaught exception) | "eof"
    line,          \* the line main() consumed last: [kind, request]
    response,      \* the response main() printed last
    nlines,        \* history: number of lines consumed from stdin
    stdout,        \* history: for each response printed, the line it answers
    minted,        \* history: the handle-ids generated, in order
    returned,      \* history: the handle-ids carried by a response, in order
    released       \* history: the handle-ids del responses reported deleted

vars == <<object_refs, ref_counter, sys_modules, pc, line, response,
          nlines, stdout, minted, returned, released>>

----------------------------------------------------------------------------
(* Bounds of the model *)

\* lines read from stdin in one run
MaxLines == 3

\* how many counter values before the 6-digit field overflows a run may start at
Headroom == 2

----------------------------------------------------------------------------
(* Values *)

JNull == [t |-> "null", v |-> ""]
JStr(s) == [t |-> "str", v |-> s]
JInt(n) == [t |-> "int", v |-> n]
JList(q) == [t |-> "list", v |-> q]
\* a JSON object of a request, as the sequence of its keys (insertion order)
JDict(keys) == [t |-> "dict", v |-> keys]
\* a dict built by the worker for a response
JRec(r) == [t |-> "rec", v |-> r]
\* a list nested deeper than the interpreter's recursion limit
JDeep == [t |-> "deeplist", v |-> ""]
\* Python objects with no JSON form
PyObj(name) == [t |-> "object", v |-> name]
PyFn(name) == [t |-> "function", v |-> name]
PyMod(name) == [t |-> "module", v |-> name]

None == JNull

\* dict.get(key, default) on a request: a field is <<>> when the key is absent
Get(field, default) == IF field = <<>> THEN default ELSE field[1]

\* hash(x) succeeds: lists and dicts are unhashable
Hashable(x) == x.t \notin {"list", "dict", "deeplist"}

----------------------------------------------------------------------------
(* Handle-ids: f"ref:{_ref_counter:06d}" *)

Width == 6

RECURSIVE NumDigits(_)
NumDigits(n) == IF n < 10 THEN 1 ELSE 1 + NumDigits(n \div 10)

RECURSIVE Zeros(_)
Zeros(k) == IF k <= 0 THEN "" ELSE "0" \o Zeros(k - 1)

\* format spec 06d: zero-padded to a MINIMUM width of 6, never truncated
Format06d(n) == Zeros(Width - NumDigits(n)) \o ToString(n)

RefId(n) == "ref:" \o Format06d(n)

----------------------------------------------------------------------------
(* The world: the interpreter's environment, as seen through the calls the *)
(* worker makes into it (string tests, import, file system, getattr, call, *)
(* json.dumps, repr, type).                                                *)

\* the counter values a run is followed from: 0, the state after the module is
\* loaded, and the state the worker is in after 10^Width - Headroom handles
\* were generated and every one of them released (empty store, counter just
\* below the value whose decimal form no longer fits Width digits)
StartCounters == {0, 10^Width - Headroom}
IdRange == UNION {c .. c + MaxLines + 1 : c \in StartCounters}

\* target.startswith("ref:"), tabulated over the target strings of the model
RefStrings == {RefId(n) : n \in IdRange} \cup {"ref:tool.py"}
StartsWithRef(s) == s \in RefStrings

\* target.startswith("./") or target.startswith("../") or target.endswith(".py")
LooksLikeFile(s) ==
    s \in {"./lib.py", "./boom.py", "./gone.py", "ref:tool.py", "pkg.py"}

\* Path(target).exists(): the working directory holds lib.py, boom.py and a
\* file whose name is "ref:tool.py"
PathExists(s) == s \in {"./lib.py", "./boom.py", "ref:tool.py"}

\* Path(target).stem
Stem(s) == CASE s = "./lib.py" -> "lib"
             [] s = "./boom.py" -> "boom"
             [] s = "./gone.py" -> "gone"
             [] s = "pkg.py" -> "pkg"
             [] OTHER -> "tool"

\* spec.loader.exec_module(module): "" when the file's top level runs through,
\* else the name of the exception it raises
ExecModule(s) == IF s = "./boom.py" THEN "RuntimeError" ELSE ""

\* the module object built from a file
FileModule(s) == PyMod("file:" \o Stem(s))

\* the names importlib can find on the import path: the module lib, the
\* submodule py of a package pkg, and the standard importlib.util
Importable == {"lib", "pkg.py", "importlib.util"}

NoAttr == [has |-> FALSE, value |-> None]
Found(val) == [has |-> TRUE, value |-> val]

\* the attribute table of the world's objects: hasattr(obj, name) and
\* getattr(obj, name)
Attr(obj, name) ==
    CASE obj = PyMod("lib") ->
           CASE name \in {"f_val", "f_none", "f_obj", "f_raise", "f_badrepr", "f_deep"}
                  -> Found(PyFn(name))
             [] name = "const" -> Found(JInt(3))
             [] name = "nothing" -> Found(None)
             [] name = "thing" -> Found(PyObj("thing"))
             [] OTHER -> NoAttr
      [] obj = PyMod("file:lib") ->
           CASE name = "const" -> Found(JInt(7))
             [] name = "f_val" -> Found(PyFn("f_val"))
             [] OTHER -> NoAttr
      [] obj = PyObj("file") ->
           CASE name = "closed" -> Found(JInt(0))
             [] name = "close" -> Found(PyFn("f_none"))
             [] OTHER -> NoAttr
      [] OTHER -> NoAttr

\* callable(func)
Callable(func) == func.t = "function"

Returns(val) == [raised |-> "", value |-> val]
Raises(exc) == [raised |-> exc, value |-> None]

\* func(*args, **kwargs): *args needs an iterable, **kwargs a mapping
Invoke(func, args, kwargs) ==
    IF args.t # "list" \/ kwargs.t # "dict" THEN Raises("TypeError")
    ELSE CASE func.v = "f_val" -> Returns(JInt(4))
           [] func.v = "f_none" -> Returns(None)
           [] func.v = "f_obj" -> Returns(PyObj("file"))
           [] func.v = "f_badrepr" -> Returns(PyObj("badrepr"))
           [] func.v = "f_deep" -> Returns(JDeep)
           [] OTHER -> Raises("RuntimeError")

\* json.dumps(obj): "" when it encodes, else the name of the exception
RECURSIVE JsonDumps(_)
JsonDumps(obj) ==
    CASE obj.t \in {"null", "int", "str"} -> ""
      [] obj.t = "list" ->
           IF obj.v = <<>> THEN ""
           ELSE IF JsonDumps(Head(obj.v)) # "" THEN JsonDumps(Head(obj.v))
           ELSE JsonDumps(JList(Tail(obj.v)))
      [] obj.t = "deeplist" -> "RecursionError"
      [] OTHER -> "TypeError"

\* repr(obj): "" when it returns, else the name of the exception __repr__ raises
ReprRaises(obj) == IF obj = PyObj("badrepr") THEN "ZeroDivisionError" ELSE ""

\* len(repr(obj))
ReprLen(obj) == IF obj = PyObj("thing") THEN 500 ELSE 40

\* type(obj).__module__ and type(obj).__name__
TypeModule(obj) == CASE obj = PyObj("file") -> "_io"
                     [] obj = PyObj("thing") -> "lib"
                     [] obj = PyObj("badrepr") -> "lib"
                     [] OTHER -> "builtins"
TypeName(obj) == CASE obj.t = "object" -> obj.v
                   [] OTHER -> obj.t

Min(a, b) == IF a < b THEN a ELSE b

\* repr(obj)[:200]
ReprMax == 200

----------------------------------------------------------------------------
(* The worker's functions.  Each takes the globals it reads and returns an *)
(* outcome record: the globals as it leaves them, what it returns, and in  *)
(* raised the name of the exception it lets escape ("" for none).          *)

EmptyMap == [k \in {} |-> None]

Put(f, k, val) == [x \in DOMAIN f \cup {k} |-> IF x = k THEN val ELSE f[x]]
Remove(f, k) == [x \in DOMAIN f \ {k} |-> f[x]]

\* mutant: the counter is read but not advanced
generate_ref_id_stale(counter) ==
    [counter |-> counter, ref_id |-> RefId(counter + 1)]

\* mutant: the id is formatted before the counter is advanced
generate_ref_id_early(counter) ==
    [counter |-> counter + 1, ref_id |-> RefId(counter)]

\* _generate_ref_id: _ref_counter += 1; return f"ref:{_ref_counter:06d}"
generate_ref_id(counter) ==
    [counter |-> counter + 1, ref_id |-> RefId(counter + 1)]

\* _is_json_serializable: json.dumps under except (TypeError, ValueError,
\* OverflowError); any other exception escapes
is_json_serializable(obj) ==
    LET e == JsonDumps(obj)
    IN  [raised |-> IF e \in {"", "TypeError", "ValueError", "OverflowError"}
                    THEN "" ELSE e,
         ok |-> e = ""]

\* an outcome of _serialize_result
Classified(raised, type, value, ref, refs, counter, new) ==
    [raised |-> raised, type |-> type, value |-> value, ref |-> ref,
     refs |-> refs, counter |-> counter, minted |-> new]

\* the type description returned with a reference
TypeInfo(obj) ==
    JRec([type |-> IF TypeModule(obj) # "builtins"
                   THEN TypeModule(obj) \o "." \o TypeName(obj)
                   ELSE TypeName(obj),
          repr_len |-> Min(ReprLen(obj), ReprMax)])

\* mutant: the reference is returned but the object is not retained
serialize_result_unstored(obj, refs, counter) ==
    IF obj = None
    THEN Classified("", "none", JNull, JNull, refs, counter, <<>>)
    ELSE IF JsonDumps(obj) = ""
    THEN Classified("", "value", obj, JNull, refs, counter, <<>>)
    ELSE LET g == generate_ref_id(counter)
         IN  Classified("", "ref", TypeInfo(obj), JStr(g.ref_id), refs, g.counter,
                        <<g.ref_id>>)

\* mutant: the store keeps only the newest object
serialize_result_evicting(obj, refs, counter) ==
    IF obj = None
    THEN Classified("", "none", JNull, JNull, refs, counter, <<>>)
    ELSE IF JsonDumps(obj) = ""
    THEN Classified("", "value", obj, JNull, refs, counter, <<>>)
    ELSE LET g == generate_ref_id(counter)
         IN  Classified("", "ref", TypeInfo(obj), JStr(g.ref_id),
                        Put(EmptyMap, g.ref_id, obj), g.counter, <<g.ref_id>>)

\* _serialize_result
serialize_result(obj, refs, counter) ==
    IF obj = None
    THEN Classified("", "none", JNull, JNull, refs, counter, <<>>)
    ELSE LET js == is_json_serializable(obj)
         IN  IF js.raised # ""
             THEN Classified(js.raised, "", JNull, JNull, refs, counter, <<>>)
             ELSE IF js.ok
             THEN Classified("", "value", obj, JNull, refs, counter, <<>>)
             ELSE LET g == generate_ref_id(counter)
                      stored == Put(refs, g.ref_id, obj)
                  IN  IF ReprRaises(obj) # ""
                      THEN Classified(ReprRaises(obj), "", JNull, JNull,
                                      stored, g.counter, <<g.ref_id>>)
                      ELSE Classified("", "ref", TypeInfo(obj), JStr(g.ref_id),
                                      stored, g.counter, <<g.ref_id>>)

\* importlib.util: the worker imports importlib only, so the attribute util is
\* there exactly when something has imported the submodule importlib.util
UtilLoaded(mods) == "importlib.util" \in DOMAIN mods

\* importlib.import_module(name): the registry first, then the import path
import_module(name, mods) ==
    CASE name = "" -> [raised |-> "ValueError", obj |-> None, mods |-> mods]
      [] name \in DOMAIN mods -> [raised |-> "", obj |-> mods[name], mods |-> mods]
      [] name \in Importable ->
           [raised |-> "", obj |-> PyMod(name), mods |-> Put(mods, name, PyMod(name))]
      [] OTHER -> [raised |-> "ModuleNotFoundError", obj |-> None, mods |-> mods]

\* mutant: a handle-id the store does not hold resolves to None
resolve_target_lenient(target, refs, mods) ==
    IF target.t # "str"
    THEN [raised |-> "AttributeError", obj |-> None, mods |-> mods]
    ELSE IF StartsWithRef(target.v)
    THEN IF target.v \notin DOMAIN refs
         THEN [raised |-> "", obj |-> None, mods |-> mods]
         ELSE [raised |-> "", obj |-> refs[target.v], mods |-> mods]
    ELSE IF LooksLikeFile(target.v)
    THEN IF ~PathExists(target.v)
         THEN [raised |-> "ImportError", obj |-> None, mods |-> mods]
         ELSE IF ~UtilLoaded(mods)
         THEN [raised |-> "AttributeError", obj |-> None, mods |-> mods]
         ELSE LET registered == Put(mods, Stem(target.v), FileModule(target.v))
              IN  IF ExecModule(target.v) # ""
                  THEN [raised |-> ExecModule(target.v), obj |-> None,
                        mods |-> registered]
                  ELSE [raised |-> "", obj |-> FileModule(target.v),
                        mods |-> registered]
    ELSE import_module(target.v, mods)

\* mutant: the file-path test comes before the handle-id test
resolve_target_file_first(target, refs, mods) ==
    IF target.t # "str"
    THEN [raised |-> "AttributeError", obj |-> None, mods |-> mods]
    ELSE IF LooksLikeFile(target.v)
    THEN IF ~PathExists(target.v)
         THEN [raised |-> "ImportError", obj |-> None, mods |-> mods]
         ELSE IF ~UtilLoaded(mods)
         THEN [raised |-> "AttributeError", obj |-> None, mods |-> mods]
         ELSE LET registered == Put(mods, Stem(target.v), FileModule(target.v))
              IN  IF ExecModule(target.v) # ""
                  THEN [raised |-> ExecModule(target.v), obj |-> None,
                        mods |-> registered]
                  ELSE [raised |-> "", obj |-> FileModule(target.v),
                        mods |-> registered]
    ELSE IF StartsWithRef(target.v)
    THEN IF target.v \notin DOMAIN refs
         THEN [raised |-> "ValueError", obj |-> None, mods |-> mods]
         ELSE [raised |-> "", obj |-> refs[target.v], mods |-> mods]
    ELSE import_module(target.v, mods)

\* _resolve_target
resolve_target(target, refs, mods) ==
    IF target.t # "str"
    THEN [raised |-> "AttributeError", obj |-> None, mods |-> mods]
    ELSE IF StartsWithRef(target.v)
    THEN IF target.v \notin DOMAIN refs
         THEN [raised |-> "ValueError", obj |-> None, mods |-> mods]
         ELSE [raised |-> "", obj |-> refs[target.v], mods |-> mods]
    ELSE IF LooksLikeFile(target.v)
    THEN IF ~PathExists(target.v)
         THEN [raised |-> "ImportError", obj |-> None, mods |-> mods]
         ELSE IF ~UtilLoaded(mods)
         THEN [raised |-> "AttributeError", obj |-> None, mods |-> mods]
         ELSE LET registered == Put(mods, Stem(target.v), FileModule(target.v))
              IN  IF ExecModule(target.v) # ""
                  THEN [raised |-> ExecModule(target.v), obj |-> None,
                        mods |-> registered]
                  ELSE [raised |-> "", obj |-> FileModule(target.v),
                        mods |-> registered]
    ELSE import_module(target.v, mods)

\* mutant: a request without an id is answered with a null id
req_id_or_null(request) == Get(request.id, JNull)

\* request.get("id", "unknown")
req_id(request) == Get(request.id, JStr("unknown"))

\* the response envelopes
Envelope(id, type, value, ref, error) ==
    [id |-> id, type |-> type, value |-> value, ref |-> ref, error |-> error]

ErrorInfo(exc, traceback) == JRec([type |-> exc, traceback |-> traceback])

\* mutant: the error response carries the exception's name as its value too
ErrorResponse_valued(id, exc) ==
    Envelope(id, "error", JStr(exc), JNull, ErrorInfo(exc, JStr("Traceback")))

ErrorResponse(id, exc) ==
    Envelope(id, "error", JNull, JNull, ErrorInfo(exc, JStr("Traceback")))

\* an outcome of a handler: crashed is the exception that escapes the handler
Handled(crashed, resp, refs, counter, mods, new) ==
    [crashed |-> crashed, response |-> resp, refs |-> refs, counter |-> counter,
     mods |-> mods, minted |-> new]

\* bool(x)
Truthy(x) == x \notin {JNull, JStr(""), JInt(0), JList(<<>>)}

\* the tail shared by handle_call and handle_getattr: classify the result and
\* build the response; an exception of the classifier is caught like any other
Respond(id, result, refs, counter, mods) ==
    LET c == serialize_result(result, refs, counter)
    IN  IF c.raised # ""
        THEN Handled("", ErrorResponse(id, c.raised), c.refs, c.counter, mods, c.minted)
        ELSE Handled("", Envelope(id, c.type, c.value, c.ref, JNull),
                     c.refs, c.counter, mods, c.minted)

\* mutant: an attribute that is not callable is refused instead of returned
handle_call_strict(request, refs, counter, mods) ==
    LET id == req_id(request)
        target == Get(request.target, JStr(""))
        method == Get(request.method, JStr(""))
        args == Get(request.args, JList(<<>>))
        kwargs == Get(request.kwargs, JDict(<<>>))
        r == resolve_target(target, refs, mods)
        Fail(exc) == Handled("", ErrorResponse(id, exc), refs, counter, r.mods, <<>>)
    IN  IF r.raised # "" THEN Fail(r.raised)
        ELSE IF Truthy(method) /\ method.t # "str" THEN Fail("TypeError")
        ELSE IF Truthy(method) /\ ~Attr(r.obj, method.v).has THEN Fail("AttributeError")
        ELSE LET func == IF Truthy(method) THEN Attr(r.obj, method.v).value ELSE r.obj
                 call == IF Callable(func) THEN Invoke(func, args, kwargs)
                         ELSE Raises("TypeError")
             IN  IF call.raised # "" THEN Fail(call.raised)
                 ELSE Respond(id, call.value, refs, counter, r.mods)

\* handle_call
handle_call(request, refs, counter, mods) ==
    LET id == req_id(request)
        target == Get(request.target, JStr(""))
        method == Get(request.method, JStr(""))
        args == Get(request.args, JList(<<>>))
        kwargs == Get(request.kwargs, JDict(<<>>))
        r == resolve_target(target, refs, mods)
        Fail(exc) == Handled("", ErrorResponse(id, exc), refs, counter, r.mods, <<>>)
    IN  IF r.raised # "" THEN Fail(r.raised)
        ELSE IF Truthy(method) /\ method.t # "str" THEN Fail("TypeError")
        ELSE IF Truthy(method) /\ ~Attr(r.obj, method.v).has THEN Fail("AttributeError")
        ELSE LET func == IF Truthy(method) THEN Attr(r.obj, method.v).value ELSE r.obj
                 call == IF Callable(func) THEN Invoke(func, args, kwargs)
                         ELSE Returns(func)
             IN  IF call.raised # "" THEN Fail(call.raised)
                 ELSE Respond(id, call.value, refs, counter, r.mods)

\* handle_getattr
handle_getattr(request, refs, counter, mods) ==
    LET id == req_id(request)
        target == Get(request.target, JStr(""))
        attr == Get(request.attr, JStr(""))
        r == resolve_target(target, refs, mods)
        Fail(exc) == Handled("", ErrorResponse(id, exc), refs, counter, r.mods, <<>>)
    IN  IF r.raised # "" THEN Fail(r.raised)
        ELSE IF attr.t # "str" THEN Fail("TypeError")
        ELSE IF ~Attr(r.obj, attr.v).has THEN Fail("AttributeError")
        ELSE Respond(id, Attr(r.obj, attr.v).value, refs, counter, r.mods)

\* iter(refs): a list yields its elements, a dict its keys, a str its
\* characters; anything else is not iterable
Chars(s) == IF s = "ref:000001"
            THEN <<JStr("r"), JStr("e"), JStr("f"), JStr(":"), JStr("0"),
                   JStr("0"), JStr("0"), JStr("0"), JStr("0"), JStr("1")>>
            ELSE <<>>
Iterable(x) == x.t \in {"list", "dict", "str"}
Iter(x) == IF x.t = "str" THEN Chars(x.v) ELSE x.v

\* ref in _object_refs, for a hashable ref: the keys are strings
IsKey(ref, refs) == ref.t = "str" /\ ref.v \in DOMAIN refs

RECURSIVE del_loop_reporting_all(_, _, _)
\* mutant: every hashable ref named is reported as deleted, present or not
del_loop_reporting_all(todo, refs, deleted) ==
    IF todo = <<>> THEN [raised |-> "", refs |-> refs, deleted |-> deleted]
    ELSE IF ~Hashable(Head(todo))
    THEN [raised |-> "TypeError", refs |-> refs, deleted |-> deleted]
    ELSE del_loop_reporting_all(Tail(todo),
                                IF IsKey(Head(todo), refs)
                                THEN Remove(refs, Head(todo).v) ELSE refs,
                                Append(deleted, Head(todo)))

RECURSIVE del_loop_keeping(_, _, _)
\* mutant: a present id is reported as deleted but its entry is kept
del_loop_keeping(todo, refs, deleted) ==
    IF todo = <<>> THEN [raised |-> "", refs |-> refs, deleted |-> deleted]
    ELSE IF ~Hashable(Head(todo))
    THEN [raised |-> "TypeError", refs |-> refs, deleted |-> deleted]
    ELSE del_loop_keeping(Tail(todo), refs,
                          IF IsKey(Head(todo), refs)
                          THEN Append(deleted, Head(todo)) ELSE deleted)

\* the loop of handle_del; hashing an unhashable element raises TypeError
RECURSIVE del_loop(_, _, _)
del_loop(todo, refs, deleted) ==
    IF todo = <<>> THEN [raised |-> "", refs |-> refs, deleted |-> deleted]
    ELSE LET ref == Head(todo)
         IN  IF ~Hashable(ref)
             THEN [raised |-> "TypeError", refs |-> refs, deleted |-> deleted]
             ELSE IF IsKey(ref, refs)
             THEN del_loop(Tail(todo), Remove(refs, ref.v), Append(deleted, ref))
             ELSE del_loop(Tail(todo), refs, deleted)

\* handle_del: nothing in it is under a try
handle_del(request, refs, counter, mods) ==
    LET id == req_id(request)
        named == Get(request.refs, JList(<<>>))
    IN  IF ~Iterable(named)
        THEN Handled("TypeError", ErrorResponse(id, "TypeError"), refs, counter, mods, <<>>)
        ELSE LET d == del_loop(Iter(named), refs, <<>>)
             IN  IF d.raised # ""
                 THEN Handled(d.raised, ErrorResponse(id, d.raised), d.refs, counter,
                              mods, <<>>)
                 ELSE Handled("",
                              Envelope(id, "value",
                                       JRec([deleted |-> JList(d.deleted),
                                             remaining |-> JInt(Cardinality(DOMAIN d.refs))]),
                                       JNull, JNull),
                              d.refs, counter, mods, <<>>)

\* mutant: ping reports the number of handles generated, not the number held
handle_ping_counting(request, refs, counter, mods) ==
    Handled("",
            Envelope(req_id(request), "value",
                     JRec([status |-> JStr("ok"), refs_count |-> JInt(counter)]),
                     JNull, JNull),
            refs, counter, mods, <<>>)

\* handle_ping
handle_ping(request, refs, counter, mods) ==
    Handled("",
            Envelope(req_id(request), "value",
                     JRec([status |-> JStr("ok"),
                           refs_count |-> JInt(Cardinality(DOMAIN refs))]),
                     JNull, JNull),
            refs, counter, mods, <<>>)

----------------------------------------------------------------------------
(* The lines the host sends *)

\* a decoded JSON object, as the record of its fields (<<>>: key absent)
JReq(fields) == [t |-> "request", v |-> fields]

Req(id, type, target, method, attr, args, kwargs, refs) ==
    JReq([id |-> id, type |-> type, target |-> target, method |-> method,
          attr |-> attr, args |-> args, kwargs |-> kwargs, refs |-> refs])

Call(id, type, target, method, args) ==
    Req(id, type, target, method, <<>>, args, <<>>, <<>>)
Getattr(id, target, attr) ==
    Req(id, <<JStr("getattr")>>, target, <<>>, attr, <<>>, <<>>, <<>>)
Del(id, refs) == Req(id, <<JStr("del")>>, <<>>, <<>>, <<>>, <<>>, <<>>, refs)
Ping(id) == Req(id, <<JStr("ping")>>, <<>>, <<>>, <<>>, <<>>, <<>>, <<>>)

Ids == {<<>>, <<JStr("r1")>>, <<JStr("unknown")>>}
R1 == <<JStr("r1")>>
TCall == <<JStr("call")>>

\* handle-ids a request may name: the first two of a run, for each start
Handles == {RefId(c + k) : c \in StartCounters, k \in 1 .. 2}
HandleTargets == {<<JStr(h)>> : h \in Handles}

Targets ==
    {<<>>, <<JInt(5)>>} \cup HandleTargets \cup
    {<<JStr(n)>> : n \in {"lib", "boom", "gone", "./lib.py", "./boom.py",
                          "./gone.py", "ref:tool.py", "pkg.py", "importlib.util"}}

LibNames == {"f_val", "f_none", "f_obj", "f_raise", "f_badrepr", "f_deep",
             "const", "nothing", "thing", "nope"}

CallRequests ==
    {Call(i, TCall, <<JStr("lib")>>, <<JStr(m)>>, <<>>) :
        i \in Ids, m \in {"f_val", "f_none", "f_obj", "nope"}}
    \cup {Call(R1, TCall, tg, <<>>, <<>>) : tg \in Targets}
    \cup {Call(R1, TCall, <<JStr("lib")>>, <<JStr(m)>>, <<>>) : m \in LibNames}
    \cup {Call(R1, TCall, tg, <<JStr(m)>>, <<>>) :
            tg \in HandleTargets, m \in {"close", "closed", "nope"}}
    \cup {Call(R1, TCall, <<JStr("./lib.py")>>, <<JStr("const")>>, <<>>),
          Call(R1, TCall, <<JStr("lib")>>, <<JInt(5)>>, <<>>),
          Call(R1, TCall, <<JStr("lib")>>, <<JStr("f_val")>>, <<JList(<<JInt(16)>>)>>),
          Call(R1, TCall, <<JStr("lib")>>, <<JStr("f_val")>>, <<JInt(16)>>)}
    \cup {Call(R1, ty, <<JStr("lib")>>, <<JStr(m)>>, <<>>) :
            ty \in {<<>>, <<JStr("exec")>>, <<JInt(7)>>}, m \in {"f_obj", "const"}}

GetattrRequests ==
    {Getattr(i, <<JStr("lib")>>, <<JStr(a)>>) :
        i \in Ids, a \in {"const", "thing", "nothing", "nope"}}
    \cup {Getattr(R1, tg, <<JStr(a)>>) : tg \in HandleTargets, a \in {"closed", "close"}}
    \cup {Getattr(R1, <<JStr("lib")>>, <<JStr("f_obj")>>),
          Getattr(R1, <<JStr("gone")>>, <<JStr("const")>>),
          Getattr(R1, <<JStr("./lib.py")>>, <<JStr("const")>>),
          Getattr(R1, <<JStr("lib")>>, <<>>),
          Getattr(R1, <<JStr("lib")>>, <<JInt(5)>>)}

\* the elements of a refs list: handle-ids, another string, a number, a list
HandleElems == {JStr(h) : h \in Handles}
Seqs2(S) == {<<>>} \cup {<<a>> : a \in S} \cup {<<a, b>> : a \in S, b \in S}

RefsLists ==
    Seqs2(HandleElems)
    \cup {<<JStr("x")>>, <<JInt(1)>>, <<JList(<<>>)>>}
    \cup {<<a, b>> : a \in {JStr(RefId(1)), JStr(RefId(10^Width - Headroom + 1))},
                     b \in {JList(<<>>), JInt(1)}}
    \cup {<<JInt(1), JStr(RefId(1))>>, <<JList(<<>>), JStr(RefId(1))>>}
    \cup {<<JStr(RefId(c + 1)), JStr(RefId(c + 2)), JStr(RefId(c + 1))>> :
            c \in StartCounters}

DelRequests ==
    {Del(R1, <<JList(q)>>) : q \in RefsLists}
    \cup {Del(i, <<JList(<<JStr(RefId(1)), JStr(RefId(999999))>>)>>) : i \in Ids}
    \cup {Del(R1, f) : f \in {<<>>, <<JInt(5)>>, <<JNull>>, <<JStr("ref:000001")>>,
                              <<JDict(<<JStr(RefId(1))>>)>>}}

PingRequests == {Ping(i) : i \in Ids}

\* a request whose type cannot be hashed
UnhashableTypeRequests == {Call(R1, <<JList(<<>>)>>, <<JStr("lib")>>, <<>>, <<>>)}

Requests == CallRequests \cup GetattrRequests \cup DelRequests \cup PingRequests

\* decoded JSON values that are not objects
NonObjects == {JList(<<>>), JInt(5), JNull, JStr("ping")}

\* a line as main() classifies it
Line(kind, value) == [kind |-> kind, request |-> value]

----------------------------------------------------------------------------
(* main() *)

\* handlers.get(req_type, handle_call), with req_type = request.get("type", "call")
req_type(request) == Get(request.type, JStr("call"))

handler(request) ==
    LET ty == req_type(request)
    IN  IF ty \in {JStr("getattr"), JStr("del"), JStr("ping")} THEN ty.v ELSE "call"

\* the requests each handler receives
Routed(name) == {r \in Requests : handler(r.v) = name}
ToCall == Routed("call")
ToGetattr == Routed("getattr")
ToDel == Routed("del")
ToPing == Routed("ping")

\* the response to a line json.loads rejects with JSONDecodeError
DecodeErrorResponse ==
    Envelope(JStr("unknown"), "error", JNull, JNull,
             ErrorInfo("JSONDecodeError", JNull))

\* sys.modules holds none of the world's names when main() starts: a plain
\* interpreter start-up does not import importlib.util (a start-up that does
\* puts the worker in the state a request importing it leads to)
Init ==
    /\ object_refs = EmptyMap
    /\ ref_counter \in StartCounters
    /\ sys_modules = EmptyMap
    /\ pc = "running"
    /\ line = Line("none", JNull)
    /\ response = Envelope(JNull, "none", JNull, JNull, JNull)
    /\ nlines = 0
    /\ stdout = <<>>
    /\ minted = <<>>
    /\ returned = <<>>
    /\ released = <<>>

\* for line in sys.stdin: one more line is there
MoreInput ==
    /\ pc = "running"
    /\ nlines < MaxLines

ReadLine(l) ==
    /\ MoreInput
    /\ nlines' = nlines + 1
    /\ line' = l

\* the handle-ids a response reports as deleted: value.deleted of a del response
Reported(resp) ==
    IF resp.type = "value" /\ resp.value.t = "rec" /\ "deleted" \in DOMAIN resp.value.v
    THEN [k \in 1 .. Len(resp.value.v.deleted.v) |-> resp.value.v.deleted.v[k].v]
    ELSE <<>>

\* print(json.dumps(response), flush=True)
Emit(resp) ==
    /\ response' = resp
    /\ stdout' = Append(stdout, nlines + 1)
    /\ returned' = IF resp.ref = JNull THEN returned ELSE Append(returned, resp.ref.v)
    /\ released' = released \o Reported(resp)

\* an exception nothing catches: the traceback goes to stderr, the process exits
Crash ==
    /\ pc' = "crashed"
    /\ UNCHANGED <<response, stdout, returned, released>>

\* response = handler(request); print(...)
Serve(h) ==
    /\ object_refs' = h.refs
    /\ ref_counter' = h.counter
    /\ sys_modules' = h.mods
    /\ minted' = minted \o h.minted
    /\ IF h.crashed # "" THEN Crash ELSE Emit(h.response) /\ pc' = pc

\* line.strip() is empty: continue
BlankLine ==
    /\ ReadLine(Line("blank", JNull))
    /\ UNCHANGED <<object_refs, ref_counter, sys_modules, pc, response, stdout,
                   minted, returned, released>>

\* json.loads raises JSONDecodeError
UndecodableLine ==
    /\ ReadLine(Line("undecodable", JNull))
    /\ Emit(DecodeErrorResponse)
    /\ UNCHANGED <<object_refs, ref_counter, sys_modules, pc, minted>>

\* json.loads raises another exception (RecursionError on deep nesting,
\* ValueError on an integer past the digit limit): nothing catches it
DecodeFault ==
    /\ ReadLine(Line("fault", JNull))
    /\ Crash
    /\ UNCHANGED <<object_refs, ref_counter, sys_modules, minted>>

\* the line decodes to a value without .get: AttributeError at request.get
NonObjectLine ==
    /\ \E val \in NonObjects : ReadLine(Line("decoded", val))
    /\ Crash
    /\ UNCHANGED <<object_refs, ref_counter, sys_modules, minted>>

\* handlers.get(req_type, ...) hashes req_type: TypeError for a list or dict
UnhashableType ==
    /\ \E r \in UnhashableTypeRequests :
          /\ ~Hashable(req_type(r.v))
          /\ ReadLine(Line("decoded", r))
    /\ Crash
    /\ UNCHANGED <<object_refs, ref_counter, sys_modules, minted>>

CallRequest ==
    /\ MoreInput
    /\ \E r \in ToCall :
           /\ ReadLine(Line("decoded", r))
           /\ \E h \in {handle_call(r.v, object_refs, ref_counter, sys_modules)} :
                 Serve(h)

GetattrRequest ==
    /\ MoreInput
    /\ \E r \in ToGetattr :
           /\ ReadLine(Line("decoded", r))
           /\ \E h \in {handle_getattr(r.v, object_refs, ref_counter, sys_modules)} :
                 Serve(h)

DelRequest ==
    /\ MoreInput
    /\ \E r \in ToDel :
           /\ ReadLine(Line("decoded", r))
           /\ \E h \in {handle_del(r.v, object_refs, ref_counter, sys_modules)} :
                 Serve(h)

PingRequest ==
    /\ MoreInput
    /\ \E r \in ToPing :
           /\ ReadLine(Line("decoded", r))
           /\ \E h \in {handle_ping(r.v, object_refs, ref_counter, sys_modules)} :
                 Serve(h)

\* sys.stdin is exhausted: the for loop ends and main() returns
EndOfInput ==
    /\ pc = "running"
    /\ pc' = "eof"
    /\ UNCHANGED <<object_refs, ref_counter, sys_modules, line, response, nlines,
                   stdout, minted, returned, released>>

Next ==
    \/ NonObjectLine
    \/ UnhashableType
    \/ DecodeFault
    \/ UndecodableLine
    \/ BlankLine
    \/ CallRequest
    \/ GetattrRequest
    \/ DelRequest
    \/ PingRequest
    \/ EndOfInput

Spec == Init /\ [][Next]_vars

----------------------------------------------------------------------------
(* Properties *)

\* the step printed a response
Emits == stdout' # stdout

\* the last line consumed has been answered
Answered == stdout # <<>> /\ stdout[Len(stdout)] = nlines

\* the step served a decoded request through the handler called name
Serves(name) ==
    /\ nlines' = nlines + 1
    /\ line'.kind = "decoded"
    /\ line'.request.t = "request"
    /\ Hashable(req_type(line'.request.v))
    /\ handler(line'.request.v) = name

\* the last line consumed is a decoded request routed to the handler called name
Served(name) ==
    /\ line.kind = "decoded"
    /\ line.request.t = "request"
    /\ Hashable(req_type(line.request.v))
    /\ handler(line.request.v) = name

\* what resolution, lookup and invocation make of a call or getattr request,
\* in the world, from the store and registry the request finds: the result
\* handed to the classifier, or the exception raised before it
Evaluate(request, refs, mods) ==
    LET r == resolve_target(Get(request.target, JStr("")), refs, mods)
        method == Get(request.method, JStr(""))
        attr == Get(request.attr, JStr(""))
        func == IF Truthy(method) THEN Attr(r.obj, method.v).value ELSE r.obj
    IN  IF r.raised # "" THEN Raises(r.raised)
        ELSE IF handler(request) = "getattr"
        THEN IF attr.t # "str" THEN Raises("TypeError")
             ELSE IF ~Attr(r.obj, attr.v).has THEN Raises("AttributeError")
             ELSE Returns(Attr(r.obj, attr.v).value)
        ELSE IF Truthy(method) /\ method.t # "str" THEN Raises("TypeError")
        ELSE IF Truthy(method) /\ ~Attr(r.obj, method.v).has THEN Raises("AttributeError")
        ELSE IF Callable(func)
        THEN Invoke(func, Get(request.args, JList(<<>>)), Get(request.kwargs, JDict(<<>>)))
        ELSE Returns(func)

Produced(request, refs, mods) == Evaluate(request, refs, mods).value

\* C1: whenever a response of type ref is printed, the handle-id it carries is
\* at that moment a key of _object_refs, and the entry under it is the object
\* the call or getattr produced.
C1_RefIsStored ==
    [][(Emits /\ response'.type = "ref") =>
          /\ response'.ref.t = "str"
          /\ response'.ref.v \in DOMAIN object_refs'
          /\ object_refs'[response'.ref.v]
                = Produced(line'.request.v, object_refs, sys_modules)]_vars

\* C1 witness: a ref response has just been printed for a handle in the store
C1_Witness ==
    /\ Answered
    /\ response.type = "ref"
    /\ response.ref.v \in DOMAIN object_refs

\* C2: the handle-ids generated in a run are consecutive members of the id
\* sequence, whatever was released in between: the k-th id generated is the
\* (N+k)-th of the sequence, N being the number generated before the run's
\* first line; no id is generated twice and no id is returned twice.
C2_IdsIncreaseNeverReused ==
    /\ \E c \in StartCounters :
          \A k \in 1 .. Len(minted) : minted[k] = RefId(c + k)
    /\ \A i, j \in 1 .. Len(minted) : i # j => minted[i] # minted[j]
    /\ \A i, j \in 1 .. Len(returned) : i # j => returned[i] # returned[j]
    /\ \A i \in 1 .. Len(returned) : \E k \in 1 .. Len(minted) : returned[i] = minted[k]

\* C2 witness: an id was generated, every handle was released, and an id was
\* generated again
C2_Witness ==
    /\ Len(minted) >= 2
    /\ Served("call")
    /\ Answered
    /\ response.type = "ref"
    /\ DOMAIN object_refs = {response.ref.v}
    /\ response.ref.v = minted[Len(minted)]

\* the handle-ids a del request names
Named(request) ==
    LET named == Get(request.refs, JList(<<>>))
    IN  IF Iterable(named)
        THEN {Iter(named)[k].v : k \in {n \in 1 .. Len(Iter(named)) : Iter(named)[n].t = "str"}}
        ELSE {}

\* C4: an id leaves _object_refs, or has its entry replaced, only in a step that
\* serves a del request naming it.
C4_RemovedOnlyByDel ==
    [][\A id \in DOMAIN object_refs :
          (id \notin DOMAIN object_refs' \/ object_refs'[id] # object_refs[id]) =>
              /\ Serves("del")
              /\ req_type(line'.request.v) = JStr("del")
              /\ id \in Named(line'.request.v)
              /\ id \notin DOMAIN object_refs']_vars

\* C4 witness: a del request has just removed one handle and left another
C4_Witness ==
    /\ Served("del")
    /\ Answered
    /\ response.value.v.deleted.v # <<>>
    /\ object_refs # EmptyMap

RECURSIVE FirstOccurrences(_, _)
\* the elements of q that are in S, each once, in the order of first occurrence
FirstOccurrences(q, S) ==
    IF q = <<>> THEN <<>>
    ELSE IF Head(q) \in S
    THEN <<Head(q)>> \o FirstOccurrences(Tail(q), S \ {Head(q)})
    ELSE FirstOccurrences(Tail(q), S)

\* the request is a del whose refs is a list of hashable elements
DelOfList(request) ==
    /\ request.refs # <<>>
    /\ request.refs[1].t = "list"
    /\ \A k \in 1 .. Len(request.refs[1].v) : Hashable(request.refs[1].v[k])

\* C5: a del request whose refs is a list (present, absent and repeated ids
\* mixed) is answered with type value; deleted is the named ids that were
\* present, each once, in request order; remaining is the size of the store
\* afterwards; the store shrinks by exactly the present ids named; unnamed
\* entries and the counter are unchanged; and the same request sent again
\* next reports deleted empty and changes nothing.
C5_DelPartialIdempotent ==
    [][(Serves("del") /\ DelOfList(line'.request.v)) =>
          LET present == {JStr(id) : id \in DOMAIN object_refs \cap Named(line'.request.v)}
              expected == FirstOccurrences(line'.request.v.refs[1].v, present)
          IN  /\ Emits
              /\ pc' = "running"
              /\ response'.type = "value"
              /\ response'.value =
                    JRec([deleted |-> JList(expected),
                          remaining |-> JInt(Cardinality(DOMAIN object_refs'))])
              /\ DOMAIN object_refs' = DOMAIN object_refs \ Named(line'.request.v)
              /\ Cardinality(DOMAIN object_refs')
                    = Cardinality(DOMAIN object_refs) - Cardinality(present)
              /\ \A id \in DOMAIN object_refs' : object_refs'[id] = object_refs[id]
              /\ ref_counter' = ref_counter
              /\ (line' = line /\ Answered) =>
                    /\ expected = <<>>
                    /\ object_refs' = object_refs]_vars

\* C5 witness: a del naming a present id, then an absent one, removed the one
\* and left an unnamed entry in the store
C5_Witness ==
    /\ Served("del")
    /\ DelOfList(line.request.v)
    /\ Answered
    /\ Len(line.request.v.refs[1].v) = 2
    /\ response.value.v.deleted.v = <<line.request.v.refs[1].v[1]>>
    /\ response.value.v.remaining = JInt(1)

Range(q) == {q[k] : k \in 1 .. Len(q)}

\* C3: a call or getattr request adds an entry to _object_refs exactly when its
\* response has type ref, and then exactly one, under an id never generated
\* before; a response of type value, none or error leaves the store and the
\* counter as they were; and the classifier never fails: a result that
\* resolution, lookup and invocation produced is never answered with an error.
C3_EntryIffRef ==
    [][(Serves("call") \/ Serves("getattr")) =>
          /\ Emits
          /\ (object_refs' # object_refs) <=> (response'.type = "ref")
          /\ response'.type = "ref" =>
                /\ response'.ref.v \notin Range(minted)
                /\ response'.ref.v \notin DOMAIN object_refs
                /\ DOMAIN object_refs' = DOMAIN object_refs \cup {response'.ref.v}
                /\ Cardinality(DOMAIN object_refs') = Cardinality(DOMAIN object_refs) + 1
          /\ response'.type # "ref" =>
                /\ object_refs' = object_refs
                /\ ref_counter' = ref_counter
          /\ Evaluate(line'.request.v, object_refs, sys_modules).raised = "" =>
                response'.type # "error"]_vars

\* C6: a del request never fails: whatever its refs field holds, the worker
\* answers it with a response of type value and keeps running.
C6_DelNeverFails ==
    Served("del") =>
        /\ pc # "crashed"
        /\ Answered
        /\ response.type = "value"

\* C7: no line terminates the worker: the loop ends only at the end of the input,
\* and every line that was decoded or failed to decode has been answered.
C7_NeverTerminatesOnRequest ==
    /\ pc \in {"running", "eof"}
    /\ line.kind \in {"decoded", "undecodable", "fault"} => Answered

\* C8: one response per line, in order: after n lines were consumed n responses
\* were printed, and the k-th response answers the k-th line.
C8_OneResponsePerLine ==
    /\ Len(stdout) = nlines
    /\ \A k \in 1 .. Len(stdout) : stdout[k] = k

\* C9: a line that does not decode is answered by one response with id
\* "unknown", type error and a decode-failure category; the store, the counter
\* and the module registry are unchanged and the worker goes on to the next line.
C9_UndecodableLineAnswered ==
    [][(nlines' = nlines + 1 /\ line'.kind \in {"undecodable", "fault"}) =>
          /\ Emits
          /\ Len(stdout') = Len(stdout) + 1
          /\ response'.id = JStr("unknown")
          /\ response'.type = "error"
          /\ response'.error.v.type = "JSONDecodeError"
          /\ pc' = "running"
          /\ UNCHANGED <<object_refs, ref_counter, sys_modules>>]_vars

C11_PingReportsAndKeeps ==
    [][Serves("ping") =>
          /\ Emits
          /\ pc' = "running"
          /\ response'.type = "value"
          /\ response'.value =
                JRec([status |-> JStr("ok"),
                      refs_count |-> JInt(Cardinality(DOMAIN object_refs))])
          /\ response'.ref = JNull
          /\ response'.error = JNull
          /\ UNCHANGED <<object_refs, ref_counter, sys_modules>>]_vars

\* C11 witness: a ping was answered after a handle was generated and released
C11_Witness ==
    /\ Served("ping")
    /\ Answered
    /\ req_type(line.request.v) = JStr("ping")
    /\ response.value.v.refs_count = JInt(0)
    /\ Len(minted) = 1

\* the target of a call or getattr request: request.get("target", "")
TargetOf(request) == Get(request.target, JStr(""))

\* the step served a call or getattr request whose target is a string
Resolves ==
    /\ Serves("call") \/ Serves("getattr")
    /\ TargetOf(line'.request.v).t = "str"

\* the target is a handle-id the store does not hold
UnknownHandle(target, refs) ==
    StartsWithRef(target) /\ target \notin DOMAIN refs

\* the target is a file path with no file behind it
MissingFile(target) ==
    ~StartsWithRef(target) /\ LooksLikeFile(target) /\ ~PathExists(target)

\* the target is a dotted path, not empty, that importlib cannot import: it is
\* neither registered in sys.modules nor on the import path
MissingModule(target, mods) ==
    /\ ~StartsWithRef(target)
    /\ ~LooksLikeFile(target)
    /\ target # ""
    /\ target \notin DOMAIN mods \cup Importable

\* the step printed an error response of the category named exc
FailsWith(exc) ==
    /\ Emits
    /\ response'.type = "error"
    /\ response'.error.v.type = exc

Selected(request, refs, counter, mods) ==
    LET ty == req_type(request)
    IN  CASE ty = JStr("getattr") -> handle_getattr(request, refs, counter, mods)
          [] ty = JStr("del") -> handle_del(request, refs, counter, mods)
          [] ty = JStr("ping") -> handle_ping(request, refs, counter, mods)
          [] OTHER -> handle_call(request, refs, counter, mods)

\* C13: every decoded request is handled by exactly one handler, chosen by its
\* type: call, getattr, del and ping by their own, and a request whose type is
\* omitted or holds any other value exactly as handle_call handles the same
\* fields: the same response, the same store and counter afterwards.
C13_RoutedByType ==
    [][(nlines' = nlines + 1 /\ line'.kind = "decoded" /\ line'.request.t = "request") =>
          LET h == Selected(line'.request.v, object_refs, ref_counter, sys_modules)
          IN  /\ object_refs' = h.refs
              /\ ref_counter' = h.counter
              /\ IF h.crashed # "" THEN pc' = "crashed"
                 ELSE Emits /\ response' = h.response /\ pc' = "running"]_vars

\* C14: in every response printed, error is non-null exactly when type is
\* error, ref is non-null exactly when type is ref, and value is null whenever
\* type is none or error.
C14_TypeDeterminesFields ==
    stdout # <<>> =>
        /\ response.type \in {"value", "ref", "none", "error"}
        /\ response.error # JNull <=> response.type = "error"
        /\ response.ref # JNull <=> response.type = "ref"
        /\ response.type \in {"none", "error"} => response.value = JNull

\* C14 witness: after a ref response, a request was answered with an error
\* response carrying an error object and neither value nor ref
C14_Witness ==
    /\ Answered
    /\ returned # <<>>
    /\ line.kind = "decoded"
    /\ response.type = "error"
    /\ response.error # JNull
    /\ response.value = JNull
    /\ response.ref = JNull

\* C15: the classifier decides every result three ways: a result that is None
\* is answered with type none and a null value; any other result json.dumps
\* encodes is answered with type value, the result itself as value and no
\* handle; and every result resolution, lookup and invocation produce is
\* answered with exactly one of none, value and ref.
C15_ThreeWayTotal ==
    [][((Serves("call") \/ Serves("getattr"))
          /\ Evaluate(line'.request.v, object_refs, sys_modules).raised = "") =>
          LET v == Produced(line'.request.v, object_refs, sys_modules)
          IN  /\ Emits
              /\ v = None =>
                    /\ response'.type = "none"
                    /\ response'.value = JNull
                    /\ response'.ref = JNull
              /\ (v # None /\ JsonDumps(v) = "") =>
                    /\ response'.type = "value"
                    /\ response'.value = v
                    /\ response'.ref = JNull
              /\ response'.type \in {"none", "value", "ref"}]_vars

\* C16: the resolver takes the first form that matches, in the order handle-id,
\* file path, dotted module path.  A target beginning with "ref:" is looked up
\* in the store and nowhere else: absent, the request fails and nothing is
\* loaded or imported, even if the target ends in .py and such a file exists;
\* present, the stored object is what the request works on (a call without a
\* method on a stored object that is not callable classifies that very object,
\* which is then stored once more under a new id).  A
\* target that looks like a file path is never imported as a dotted path: with
\* no file behind it the request fails even if a module of that name could be
\* imported, and the registry gains no entry under the target.
C16_FirstMatchWins ==
    [][Resolves =>
          LET request == line'.request.v
              target == TargetOf(request).v
          IN  /\ StartsWithRef(target) =>
                    /\ sys_modules' = sys_modules
                    /\ target \notin DOMAIN object_refs => FailsWith("ValueError")
                    /\ (/\ target \in DOMAIN object_refs
                        /\ Serves("call")
                        /\ ~Truthy(Get(request.method, JStr("")))
                        /\ ~Callable(object_refs[target])) =>
                          /\ Emits
                          /\ \E id \in DOMAIN object_refs' \ DOMAIN object_refs :
                                object_refs'[id] = object_refs[target]
              /\ (~StartsWithRef(target) /\ LooksLikeFile(target)) =>
                    /\ DOMAIN sys_modules' \subseteq DOMAIN sys_modules \cup {Stem(target)}
                    /\ \A m \in DOMAIN sys_modules \ {Stem(target)} :
                          sys_modules'[m] = sys_modules[m]
                    /\ ~PathExists(target) =>
                          FailsWith("ImportError") /\ sys_modules' = sys_modules
                    /\ (PathExists(target) /\ UtilLoaded(sys_modules)) =>
                          sys_modules'[Stem(target)] = FileModule(target)
                    /\ (PathExists(target) /\ ~UtilLoaded(sys_modules)) =>
                          FailsWith("AttributeError") /\ sys_modules' = sys_modules]_vars

\* C16 witness: a call whose target begins with "ref:", ends in .py and names
\* a file that exists was answered with an error and loaded nothing
C16_Witness ==
    /\ Served("call")
    /\ Answered
    /\ TargetOf(line.request.v).t = "str"
    /\ StartsWithRef(TargetOf(line.request.v).v)
    /\ LooksLikeFile(TargetOf(line.request.v).v)
    /\ PathExists(TargetOf(line.request.v).v)
    /\ response.type = "error"
    /\ Stem(TargetOf(line.request.v).v) \notin DOMAIN sys_modules

\* the getattr request that reads the attribute a call request names as method
AsGetattr(request) ==
    [request EXCEPT !.type = <<JStr("getattr")>>, !.attr = request.method,
                    !.method = <<>>]

\* C17: a call request naming a method a, on a target that resolves, where the
\* attribute a of the target is not callable, is answered as the getattr
\* request for a on the same target would have been from the same state: the
\* same response type, value and handle, the same store and counter afterwards.
\* Where the target has no attribute a, both are answered with an error of
\* type AttributeError.  A call request with no method works on the resolved
\* target itself: it is invoked if callable and is the result if not.
C17_CallFallsBackToGetattr ==
    [][(Serves("call") /\ TargetOf(line'.request.v).t = "str") =>
          LET request == line'.request.v
              method == Get(request.method, JStr(""))
              r == resolve_target(TargetOf(request), object_refs, sys_modules)
              g == handle_getattr(AsGetattr(request), object_refs, ref_counter,
                                  sys_modules)
              own == IF Callable(r.obj)
                     THEN Invoke(r.obj, Get(request.args, JList(<<>>)),
                                 Get(request.kwargs, JDict(<<>>)))
                     ELSE Returns(r.obj)
          IN  /\ (r.raised = "" /\ Truthy(method) /\ method.t = "str") =>
                    /\ (Attr(r.obj, method.v).has
                          /\ ~Callable(Attr(r.obj, method.v).value)) =>
                          /\ Emits
                          /\ response'.type = g.response.type
                          /\ response'.value = g.response.value
                          /\ response'.ref = g.response.ref
                          /\ object_refs' = g.refs
                          /\ ref_counter' = g.counter
                    /\ ~Attr(r.obj, method.v).has =>
                          /\ FailsWith("AttributeError")
                          /\ g.response.type = "error"
                          /\ g.response.error.v.type = "AttributeError"
                          /\ UNCHANGED <<object_refs, ref_counter>>
              /\ (r.raised = "" /\ ~Truthy(method)) =>
                    /\ own.raised # "" => FailsWith(own.raised)
                    /\ (own.raised = "" /\ own.value = None) =>
                          Emits /\ response'.type = "none"
                    /\ (own.raised = "" /\ own.value # None /\ JsonDumps(own.value) = "") =>
                          Emits /\ response'.value = own.value
                    /\ (own.raised = "" /\ JsonDumps(own.value) = "TypeError") =>
                          \E id \in DOMAIN object_refs' \ DOMAIN object_refs :
                              object_refs'[id] = own.value]_vars

\* C17 witness: a call naming an attribute that is an object, neither callable
\* nor serializable, was answered with a handle to it
C17_Witness ==
    /\ Served("call")
    /\ Answered
    /\ TargetOf(line.request.v) = JStr("lib")
    /\ line.request.v.method = <<JStr("thing")>>
    /\ response.type = "ref"
    /\ object_refs[response.ref.v] = PyObj("thing")

\* C18: once a del response has reported a handle-id as deleted, the id is
\* never generated again and is never again a key of the store, and every later
\* call or getattr request whose target is that id is answered with type
\* error and leaves the store as it was.
C18_UseAfterReleaseFails ==
    [][/\ \A id \in Range(released') :
             /\ id \notin DOMAIN object_refs'
             /\ Len(minted') > Len(minted) => id # minted'[Len(minted')]
       /\ (Resolves /\ TargetOf(line'.request.v).v \in Range(released)) =>
             /\ Emits
             /\ response'.type = "error"
             /\ response'.ref = JNull
             /\ object_refs' = object_refs]_vars

\* C18 witness: a getattr on a handle-id that an earlier del response reported
\* deleted was answered with an error
C18_Witness ==
    /\ Served("getattr")
    /\ Answered
    /\ TargetOf(line.request.v).t = "str"
    /\ TargetOf(line.request.v).v \in Range(released)
    /\ TargetOf(line.request.v).v \in Range(returned)
    /\ response.type = "error"

ModuleNames == {"lib", "boom", "gone", "pkg", "tool"}

\* C20: a call or getattr request whose target is a file path, whether the
\* load succeeds or fails, leaves every dotted module path resolving as it did
\* before the request: to the same module or with the same failure, the
\* file's own stem included.
C20_FileLoadKeepsModules ==
    [][(Resolves
          /\ ~StartsWithRef(TargetOf(line'.request.v).v)
          /\ LooksLikeFile(TargetOf(line'.request.v).v)) =>
          \A m \in ModuleNames :
              /\ import_module(m, sys_modules').raised = import_module(m, sys_modules).raised
              /\ import_module(m, sys_modules').obj = import_module(m, sys_modules).obj]_vars

====
